---- MODULE Spec2Model ----
(***************************************************************************)
(* Model of the order-creation service (apps/orders/services/OrdersBo.py), *)
(* the from-cart endpoint (apps/orders/views, serializers) and the         *)
(* soft-delete base model (utils/models.py).                               *)
(*                                                                         *)
(* Money is kept in cents (DecimalField(decimal_places=2)); an unrounded   *)
(* Python Decimal is a record [hc, eps]: hc in hundredths of a cent, eps   *)
(* the residue left by the binary float discount/100 (units 1e-21 cent).   *)
(***************************************************************************)
EXTENDS Integers, Sequences, FiniteSets, TLC

VARIABLES
    DB_ENGINE,   \* settings.DATABASES['default']['ENGINE']
    Product,     \* table products_product: id -> row
    Address,     \* table profiles_address: set of rows
    CartItem,    \* table cart_cartitem: set of rows
    Order,       \* table orders_order: set of rows
    OrderItem,   \* table orders_orderitem: set of rows
    result,      \* the order request and what it answered
    deleted_at,  \* soft-delete graph: object -> deleted_at
    fk,          \* soft-delete graph: object -> field -> referenced object
    sd,          \* the last delete()/restore() call on the graph
    User,        \* table users_user: id -> row
    Profile,     \* table profiles_profile: user id -> row
    response,    \* the last request to a viewset and what it answered
    run,         \* a delete() call in progress: call stack, _deletion_context, saves
    procs        \* the concurrent create_orders requests: process -> position

vars == <<DB_ENGINE, Product, Address, CartItem, Order, OrderItem, result,
          deleted_at, fk, sd, User, Profile, response, run, procs>>

orderVars == <<DB_ENGINE, Product, Address, CartItem, Order, OrderItem, result>>
graphVars == <<deleted_at, fk, sd>>
apiVars == <<User, Profile, response, run, procs>>

None == "None"      \* Python None / SQL NULL in a reference or timestamp
Now == "now"        \* django.utils.timezone.now(), abstracted to one instant
NullPrice == -1     \* SQL NULL in the nullable column Product.original_price

-----------------------------------------------------------------------------
(* Bounds and fixture *)

MaxItems == 2        \* longest item list of a create_orders request
MaxQuantity == 2     \* largest quantity of a request line
InitStock == 1       \* stock of every product at the start
MaxCartQty == 2      \* largest quantity a cart line is grown to
MaxCartRows == 3     \* cart lines are created while fewer exist
MaxPaused == 1        \* products paused at the same time
MaxProducts == 4     \* products are created while fewer rows exist
MaxUsers == 6        \* users are registered while fewer rows exist

UserIds == {"u1", "u2", "u3"}          \* active users
GhostUser == "u0"                      \* an id no active user has
Buyers == {"u1", "u3"}                 \* callers: a seller and a pure buyer
ProductIds == {"p1", "p2", "p3"}       \* rows of Product
GhostProduct == "p0"                   \* an id no Product row has
SellerOf == [p1 |-> "u1", p2 |-> "u2", p3 |-> "u2"]
PricesOf == [p1 |-> {1}, p2 |-> {1999}, p3 |-> {10, NullPrice}]
Discounts == {0, 5}
CartOf == [u1 |-> "c1", u2 |-> "c2", u3 |-> "c3"]   \* Cart.user, one-to-one
BadAddressData == "bad"     \* new_address data Address.objects.create rejects
GoodAddressData == "good"   \* new_address data Address.objects.create accepts
GhostAddress == "a0"        \* an id no Address row has

-----------------------------------------------------------------------------
(* Generic helpers *)

Range(s) == {s[i] : i \in 1..Len(s)}

RECURSIVE SumPrice(_)
SumPrice(S) == IF S = {} THEN 0
               ELSE LET x == CHOOSE y \in S : TRUE IN x.price + SumPrice(S \ {x})

SeqsUpTo(S, n) == UNION {[1..k -> S] : k \in 0..n}

RECURSIVE Perms(_)
Perms(S) == IF S = {} THEN {<<>>}
            ELSE UNION {{<<x>> \o p : p \in Perms(S \ {x})} : x \in S}

-----------------------------------------------------------------------------
(* Managers *)

\* SoftDeleteManager.get_queryset: only rows whose deleted_at is NULL
SoftDeleteManager(rows) == {r \in rows : r.deleted_at = None}

\* Product.objects as a set of ids
ProductObjects(P) == {p \in DOMAIN P : P[p].deleted_at = None}

\* User.objects (CustomUserManager)
UserObjects == UserIds

-----------------------------------------------------------------------------
(* Decimal arithmetic of OrderCreator._process_order_items *)

\* float(discount/100) - discount/100, in units of 1e-21 (exact where 0)
FloatErr(d) ==
    CASE d = 5 -> 2776
      [] d = 10 -> 5551
      [] d = 15 -> -5551
      [] d = 20 -> 11102
      [] d = 30 -> -11102
      [] OTHER -> 0        \* 0, 25, 50, 75, 100 are exact binary fractions

\* price = original_price*quantity - original_price*quantity*Decimal(discount/100)
DecimalPrice(original_price, quantity, discount) ==
    [hc  |-> original_price * quantity * (100 - discount),
     eps |-> 0 - original_price * quantity * FloatErr(discount)]

DecimalZero == [hc |-> 0, eps |-> 0]
DecimalAdd(a, b) == [hc |-> a.hc + b.hc, eps |-> a.eps + b.eps]

\* What the column DecimalField(max_digits=10, decimal_places=2) keeps of a
\* non-negative Decimal: sqlite quantizes in Django (ROUND_HALF_EVEN),
\* postgresql rounds in the server (half away from zero).
Quantize(v, engine) ==
    LET cents == v.hc \div 100
        rem == v.hc % 100
    IN  IF rem > 50 \/ (rem = 50 /\ v.eps > 0) THEN cents + 1
        ELSE IF rem < 50 \/ (rem = 50 /\ v.eps < 0) THEN cents
        ELSE IF engine = "postgresql" THEN cents + 1
        ELSE IF cents % 2 = 0 THEN cents ELSE cents + 1

-----------------------------------------------------------------------------
(* ProductValidator *)

\* mutant: the ownership check is skipped
is_own_product_never(product, user) == FALSE

is_own_product(product, user) == product.seller = user

\* mutant: the pause check is skipped
is_paused_never(product) == FALSE

is_paused(product) == product.paused
insufficient_stock(product, quantity) == quantity > product.stock

create_error(product_id, error_type) ==
    [product_id |-> product_id, error_type |-> error_type]

\* Product.objects.get(id=product_id): the instance read from the table
ProductInstance(P, product_id) ==
    [id |-> product_id,
     seller |-> P[product_id].seller,
     stock |-> P[product_id].stock,
     paused |-> P[product_id].paused,
     paused_date |-> P[product_id].paused_date,
     original_price |-> P[product_id].original_price,
     discount |-> P[product_id].discount,
     deleted_at |-> P[product_id].deleted_at]

\* mutant: every product opens a group of its own
AppendBySeller_ungrouped(pbs, seller, dto) ==
    Append(pbs, [seller |-> seller, items |-> <<dto>>])

\* products_by_seller[seller].append(dto), keeping the dict's insertion order
AppendBySeller(pbs, seller, dto) ==
    IF \E k \in 1..Len(pbs) : pbs[k].seller = seller
    THEN [k \in 1..Len(pbs) |->
            IF pbs[k].seller = seller
            THEN [pbs[k] EXCEPT !.items = Append(@, dto)]
            ELSE pbs[k]]
    ELSE Append(pbs, [seller |-> seller, items |-> <<dto>>])

\* mutant: duplicates are not skipped
AlreadyProcessed_never(product_id, processed) == FALSE

\* `if product_id in processed_product_ids: continue`
AlreadyProcessed(product_id, processed) == product_id \in processed

RECURSIVE validate_products_loop(_, _, _, _, _, _, _)
validate_products_loop(P, items_data, i, user, pbs, errs, processed) ==
    IF i > Len(items_data)
    THEN [products_by_seller |-> pbs, product_errors |-> errs]
    ELSE
      LET product_id == items_data[i].product_id
          quantity == items_data[i].quantity
          processed2 == processed \cup {product_id}
      IN
      IF AlreadyProcessed(product_id, processed)
      THEN validate_products_loop(P, items_data, i + 1, user, pbs, errs, processed)
      ELSE IF product_id \notin ProductObjects(P)
      THEN validate_products_loop(P, items_data, i + 1, user, pbs,
              Append(errs, create_error(product_id, "product_not_found")), processed2)
      ELSE
        LET product == ProductInstance(P, product_id) IN
        IF is_own_product(product, user)
        THEN validate_products_loop(P, items_data, i + 1, user, pbs,
                Append(errs, create_error(product_id, "own_product")), processed2)
        ELSE IF is_paused(product)
        THEN validate_products_loop(P, items_data, i + 1, user, pbs,
                Append(errs, create_error(product_id, "paused_product")), processed2)
        ELSE IF insufficient_stock(product, quantity)
        THEN validate_products_loop(P, items_data, i + 1, user, pbs,
                Append(errs, create_error(product_id, "insufficient_stock")), processed2)
        ELSE validate_products_loop(P, items_data, i + 1, user,
                AppendBySeller(pbs, product.seller,
                               [product |-> product, quantity |-> quantity]),
                errs, processed2)

validate_products(P, items_data, user) ==
    validate_products_loop(P, items_data, 1, user, <<>>, <<>>, {})

-----------------------------------------------------------------------------
(* AddressService *)

AddressIdPool == <<"a1", "a2", "a3", "a4", "a5", "a6">>
NextAddressId(A) == AddressIdPool[Cardinality(A) + 1]

NoShipping == [address |-> None, address_id |-> None, new_address |-> None]

\* Returns the address (or None) and the Address table afterwards.
process_shipping_address(A, shipping_data, user) ==
    IF shipping_data.address_id # None
    THEN \* Address.objects.get(pk=address_id, user=user); any exception -> None
         IF \E a \in SoftDeleteManager(A) :
                a.id = shipping_data.address_id /\ a.user = user
         THEN [address |-> shipping_data.address_id, Address |-> A]
         ELSE [address |-> None, Address |-> A]
    ELSE IF shipping_data.new_address # None
    THEN \* Address.objects.create(user=user, **address_data); exception -> None
         IF shipping_data.new_address = BadAddressData
         THEN [address |-> None, Address |-> A]
         ELSE [address |-> NextAddressId(A),
               Address |-> A \cup {[id |-> NextAddressId(A), user |-> user,
                                    deleted_at |-> None]}]
    ELSE [address |-> None, Address |-> A]

-----------------------------------------------------------------------------
(* OrderCreator *)

\* product.save(): every column is written from the in-memory instance
SaveProduct(P, inst) ==
    [P EXCEPT ![inst.id] = [seller |-> inst.seller,
                            stock |-> inst.stock,
                            paused |-> inst.paused,
                            paused_date |-> inst.paused_date,
                            original_price |-> inst.original_price,
                            discount |-> inst.discount,
                            deleted_at |-> inst.deleted_at]]

\* acc = [Product, OrderItem, total_amount, raised]; raised models the
\* TypeError of Decimal(None) when Product.original_price is NULL.
RECURSIVE process_order_items(_, _, _, _, _)
process_order_items(engine, order_id, items, k, acc) ==
    IF k > Len(items) \/ acc.raised THEN acc
    ELSE
      LET product == items[k].product
          quantity == items[k].quantity
      IN
      IF product.original_price = NullPrice
      THEN [acc EXCEPT !.raised = TRUE]
      ELSE
        LET original_price == product.original_price * quantity
            price == DecimalPrice(product.original_price, quantity, product.discount)
            discount == product.discount
            row == [id |-> Cardinality(acc.OrderItem) + 1,
                    order |-> order_id,
                    product |-> product.id,
                    quantity |-> quantity,
                    price |-> Quantize(price, engine),
                    original_price |-> original_price,
                    discount |-> discount,
                    deleted_at |-> None]
        IN process_order_items(engine, order_id, items, k + 1,
             [Product |-> SaveProduct(acc.Product,
                              [product EXCEPT !.stock = @ - quantity]),
              OrderItem |-> acc.OrderItem \cup {row},
              total_amount |-> DecimalAdd(acc.total_amount, price),
              raised |-> FALSE])

\* acc = [Product, Order, OrderItem, created_orders, raised]
RECURSIVE OrderCreator_create_orders(_, _, _, _, _, _)
OrderCreator_create_orders(engine, products_by_seller, g, shipping_address, user, acc) ==
    IF g > Len(products_by_seller) \/ acc.raised THEN acc
    ELSE
      LET order_id == Cardinality(acc.Order) + 1
          done == process_order_items(engine, order_id,
                     products_by_seller[g].items, 1,
                     [Product |-> acc.Product, OrderItem |-> acc.OrderItem,
                      total_amount |-> DecimalZero, raised |-> FALSE])
          order == [id |-> order_id,
                    user |-> user,
                    shipping_address |-> shipping_address,
                    status |-> "pending",
                    total |-> Quantize(done.total_amount, engine),
                    deleted_at |-> None]
      IN OrderCreator_create_orders(engine, products_by_seller, g + 1,
             shipping_address, user,
             [Product |-> done.Product,
              Order |-> acc.Order \cup {order},
              OrderItem |-> done.OrderItem,
              created_orders |-> Append(acc.created_orders, order_id),
              raised |-> done.raised])

-----------------------------------------------------------------------------
(* OrdersBo *)

OrderResultDTO(success, orders, error_message, product_errors) ==
    [success |-> success, orders |-> orders,
     error_message |-> error_message, product_errors |-> product_errors]

\* db = [DB_ENGINE, Product, Address, Order, OrderItem].  Returns the DTO
\* (dto), whether an exception escaped (raised) and the tables afterwards;
\* transaction.atomic leaves the tables as they were when it raised.
OrdersBo_create_orders(db, user_id, items, shipping_data) ==
    LET same(dto) == [dto |-> dto, raised |-> FALSE, db |-> db] IN
    IF user_id \notin UserObjects
    THEN same(OrderResultDTO(FALSE, <<>>, "invalid_user", <<>>))
    ELSE IF items = <<>>
    THEN same(OrderResultDTO(FALSE, <<>>, "items_required", <<>>))
    ELSE
      LET v == validate_products(db.Product, items, user_id) IN
      IF v.product_errors # <<>>
      THEN same(OrderResultDTO(FALSE, <<>>, "product_errors", v.product_errors))
      ELSE IF v.products_by_seller = <<>>
      THEN same(OrderResultDTO(FALSE, <<>>, "no_valid_products", <<>>))
      ELSE
        LET a == process_shipping_address(db.Address, shipping_data, user_id) IN
        IF a.address = None
        THEN same(OrderResultDTO(FALSE, <<>>, "shipping_address", <<>>))
        ELSE
          LET c == OrderCreator_create_orders(db.DB_ENGINE,
                       v.products_by_seller, 1, a.address, user_id,
                       [Product |-> db.Product, Order |-> db.Order,
                        OrderItem |-> db.OrderItem,
                        created_orders |-> <<>>, raised |-> FALSE])
          IN IF c.raised
             THEN [dto |-> OrderResultDTO(FALSE, <<>>, "exception", <<>>),
                   raised |-> TRUE, db |-> db]
             ELSE [dto |-> OrderResultDTO(TRUE, c.created_orders, None, <<>>),
                   raised |-> FALSE,
                   db |-> [DB_ENGINE |-> db.DB_ENGINE,
                           Product |-> c.Product,
                           Address |-> a.Address,
                           Order |-> c.Order,
                           OrderItem |-> c.OrderItem]]

\* cart_items = CartItem.objects.filter(cart__user=user)
CartItemsOf(CI, user_id) ==
    {ci \in SoftDeleteManager(CI) : ci.cart = CartOf[user_id]}

\* items_data built from the queryset, in the order the database returns it
CartItemsData(rows_seq) ==
    [i \in 1..Len(rows_seq) |->
        [product_id |-> rows_seq[i].product, quantity |-> rows_seq[i].quantity]]

\* mutant: the cart is emptied whatever the result
ClearCart_always(CI, user_id, dto) == CI \ CartItemsOf(CI, user_id)

\* `if result.success and result.count > 0: cart_items.delete()`, a
\* QuerySet.delete() that removes the rows
ClearCart(CI, user_id, dto) ==
    IF dto.success /\ Len(dto.orders) > 0
    THEN CI \ CartItemsOf(CI, user_id)
    ELSE CI

\* Returns dto, raised, db and the CartItem table afterwards; cart_order is
\* the order in which the (unordered) queryset yields the cart's rows.
OrdersBo_create_orders_from_cart(db, CI, user_id, shipping_data, cart_order) ==
    IF user_id \notin UserObjects
    THEN [dto |-> OrderResultDTO(FALSE, <<>>, "invalid_user", <<>>),
          raised |-> FALSE, db |-> db, CartItem |-> CI]
    ELSE IF CartItemsOf(CI, user_id) = {}
    THEN [dto |-> OrderResultDTO(FALSE, <<>>, "empty_cart", <<>>),
          raised |-> FALSE, db |-> db, CartItem |-> CI]
    ELSE
      LET r == OrdersBo_create_orders(db, user_id,
                   CartItemsData(cart_order), shipping_data)
      IN [dto |-> r.dto, raised |-> r.raised, db |-> r.db,
          CartItem |-> ClearCart(CI, user_id, r.dto)]

-----------------------------------------------------------------------------
(* Product.toggle_pause *)

toggle_pause_keep_date(P, product_id) ==
    LET paused == ~P[product_id].paused IN
    [P EXCEPT ![product_id].paused = paused, ![product_id].paused_date = Now]

toggle_pause(P, product_id) ==
    LET paused == ~P[product_id].paused IN
    [P EXCEPT ![product_id].paused = paused,
              ![product_id].paused_date = IF paused THEN Now ELSE None]

-----------------------------------------------------------------------------
(* CartAddItemSerializer *)

\* CartAddItemSerializer.create; raised models the IntegrityError of
\* unique_together (cart, product) against a soft-deleted row.
CartAddItemSerializer_create(CI, cart, product, quantity) ==
    IF \E ci \in SoftDeleteManager(CI) : ci.cart = cart /\ ci.product = product
    THEN [raised |-> FALSE,
          CartItem |-> {IF ci.cart = cart /\ ci.product = product /\ ci.deleted_at = None
                        THEN [ci EXCEPT !.quantity = @ + quantity]
                        ELSE ci : ci \in CI}]
    ELSE IF \E ci \in CI : ci.cart = cart /\ ci.product = product
    THEN [raised |-> TRUE, CartItem |-> CI]
    ELSE [raised |-> FALSE,
          CartItem |-> CI \cup {[id |-> <<cart, product>>, cart |-> cart,
                                 product |-> product, quantity |-> quantity,
                                 deleted_at |-> None]}]

-----------------------------------------------------------------------------
(* The cart viewset: add_item and update_item *)

\* CartAddItemSerializer(data=...).is_valid() of one entry: the product is
\* in Product.objects, validate_quantity, and the UniqueTogetherValidator a
\* ModelSerializer derives from unique_together (cart, product), which looks
\* at CartItem.objects
CartAddItemSerializer_is_valid(CI, P, cart, entry) ==
    /\ entry.product_id \in ProductObjects(P)
    /\ entry.quantity > 0
    /\ ~\E ci \in SoftDeleteManager(CI) :
          ci.cart = cart /\ ci.product = entry.product_id

\* serializer.save(): create() of every entry in turn, up to the first that
\* raises
RECURSIVE CartAddItemSerializer_save(_, _, _)
CartAddItemSerializer_save(CI, cart, entries) ==
    IF entries = <<>> THEN [raised |-> FALSE, CartItem |-> CI]
    ELSE LET r == CartAddItemSerializer_create(CI, cart, Head(entries).product_id,
                                               Head(entries).quantity)
         IN IF r.raised THEN r
            ELSE CartAddItemSerializer_save(r.CartItem, cart, Tail(entries))

\* CartViewSet.add_item with cart = request.user.cart
add_item(CI, P, cart, entries) ==
    IF \E i \in 1..Len(entries) : ~CartAddItemSerializer_is_valid(CI, P, cart, entries[i])
    THEN [status |-> 400, CartItem |-> CI]
    ELSE LET r == CartAddItemSerializer_save(CI, cart, entries)
         IN [status |-> IF r.raised THEN 500 ELSE 200, CartItem |-> r.CartItem]

\* CartItemUpdateSerializer(data=...).is_valid() of one entry:
\* validate_quantity and validate
CartItemUpdateSerializer_is_valid(CI, cart, entry) ==
    /\ entry.quantity >= 0
    /\ \E ci \in SoftDeleteManager(CI) : ci.id = entry.item_id /\ ci.cart = cart

\* CartItemUpdateSerializer.update on self.cart_item
CartItemUpdateSerializer_update(CI, entry) ==
    {IF ci.id = entry.item_id
     THEN IF entry.quantity = 0 THEN [ci EXCEPT !.deleted_at = Now]
          ELSE [ci EXCEPT !.quantity = entry.quantity]
     ELSE ci : ci \in CI}

\* the loop of update_item over a list: a serializer per entry, is_valid()
\* without raise_exception, update(); update() of an entry that is not
\* valid has no cart_item and raises AttributeError
RECURSIVE update_each(_, _, _)
update_each(CI, cart, entries) ==
    IF entries = <<>> THEN [raised |-> FALSE, CartItem |-> CI]
    ELSE IF ~CartItemUpdateSerializer_is_valid(CI, cart, Head(entries))
    THEN [raised |-> TRUE, CartItem |-> CI]
    ELSE update_each(CartItemUpdateSerializer_update(CI, Head(entries)), cart,
                     Tail(entries))

\* CartViewSet.update_item with the cart of request.user
update_item(CI, cart, entries, is_many) ==
    IF \E i \in 1..Len(entries) : ~CartItemUpdateSerializer_is_valid(CI, cart, entries[i])
    THEN [status |-> 400, CartItem |-> CI]
    ELSE IF ~is_many
    THEN [status |-> 200, CartItem |-> CartItemUpdateSerializer_update(CI, entries[1])]
    ELSE LET r == update_each(CI, cart, entries)
         IN [status |-> IF r.raised THEN 500 ELSE 200, CartItem |-> r.CartItem]

-----------------------------------------------------------------------------
(* The state after construction *)

NoRequest == [address |-> None, new_address |-> None]

Result(op, user_id, items, request, shipping_data, dto, raised, status) ==
    [op |-> op, user_id |-> user_id, items |-> items, request |-> request,
     shipping_data |-> shipping_data,
     success |-> dto.success, orders |-> dto.orders,
     error_message |-> dto.error_message,
     product_errors |-> dto.product_errors,
     raised |-> raised, status |-> status]

NoDTO == OrderResultDTO(FALSE, <<>>, None, <<>>)

\* no order request has been made
Idle == Result("idle", None, <<>>, NoRequest, NoShipping, NoDTO, FALSE, 0)

InitOrders ==
    /\ DB_ENGINE \in {"sqlite3", "postgresql"}
    /\ Product \in {P \in [ProductIds ->
                            [seller : UserIds, stock : {InitStock},
                             paused : {FALSE}, paused_date : {None},
                             original_price : UNION {PricesOf[p] : p \in ProductIds},
                             discount : Discounts, deleted_at : {None}]] :
                      \A p \in ProductIds :
                          /\ P[p].seller = SellerOf[p]
                          /\ P[p].original_price \in PricesOf[p]
                          /\ P[p].discount = P["p1"].discount}
    /\ Address = {[id |-> "a1", user |-> "u3", deleted_at |-> None],
                  [id |-> "a2", user |-> "u1", deleted_at |-> None]}
    /\ CartItem = {}
    /\ Order = {}
    /\ OrderItem = {}
    /\ result = Idle

-----------------------------------------------------------------------------
(* Requests *)

ItemChoices ==
    [product_id : ProductIds, quantity : 1..MaxQuantity]
    \cup {[product_id |-> GhostProduct, quantity |-> 1]}

ShippingChoices ==
    {NoShipping}
    \cup {[NoShipping EXCEPT !.address_id = a] : a \in {"a1", "a2", GhostAddress}}
    \cup {[NoShipping EXCEPT !.new_address = d] : d \in {GoodAddressData, BadAddressData}}

\* the shipping data of the direct requests: the buyer u3's address, or a new one
DirectShippingChoices ==
    {[NoShipping EXCEPT !.address_id = "a1"],
     [NoShipping EXCEPT !.new_address = GoodAddressData]}

DB == [DB_ENGINE |-> DB_ENGINE, Product |-> Product, Address |-> Address,
       Order |-> Order, OrderItem |-> OrderItem]

Commit(r) ==
    /\ Product' = r.db.Product
    /\ Address' = r.db.Address
    /\ Order' = r.db.Order
    /\ OrderItem' = r.db.OrderItem
    /\ UNCHANGED DB_ENGINE

\* OrdersBo().create_orders(OrderInputDTO(user_id, items, shipping_data))
CreateOrders(user_id, items, shipping_data) ==
    /\ result = Idle
    /\ LET r == OrdersBo_create_orders(DB, user_id, items, shipping_data) IN
       /\ Commit(r)
       /\ result' = Result("create_orders", user_id, items, NoRequest,
                           shipping_data, r.dto, r.raised, 0)
    /\ UNCHANGED <<CartItem, graphVars, apiVars>>

\* OrdersBo().create_orders_from_cart(user_id, shipping_data)
CreateOrdersFromCart(user_id, shipping_data, cart_order) ==
    /\ result = Idle
    /\ LET r == OrdersBo_create_orders_from_cart(DB, CartItem, user_id,
                    shipping_data, cart_order) IN
       /\ Commit(r)
       /\ CartItem' = r.CartItem
       /\ result' = Result("create_orders_from_cart", user_id,
                           CartItemsData(cart_order), NoRequest,
                           shipping_data, r.dto, r.raised, 0)
    /\ UNCHANGED <<graphVars, apiVars>>

\* POST orders/from-cart: OrderViewSet.create_from_cart with
\* OrderFromCartSerializer (validate, then create)
OrderViewSet_create_from_cart(user, request, cart_order) ==
    LET rejected == Result("create_from_cart", user, CartItemsData(cart_order),
                           request, NoShipping, NoDTO, FALSE, 400)
        known == \E a \in SoftDeleteManager(Address) : a.id = request.address
        address == CHOOSE a \in SoftDeleteManager(Address) : a.id = request.address
        shipping_data ==
            IF request.address # None
            THEN [NoShipping EXCEPT !.address = request.address]
            ELSE [NoShipping EXCEPT !.new_address = request.new_address]
    IN
    /\ result = Idle
    /\ IF \/ (request.address # None /\ ~known)
          \/ (request.address = None /\ request.new_address = None)
          \/ (request.address # None /\ request.new_address # None)
          \/ (request.address # None /\ address.user # user)
       THEN /\ result' = rejected
            /\ UNCHANGED <<DB_ENGINE, Product, Address, CartItem, Order, OrderItem>>
       ELSE LET r == OrdersBo_create_orders_from_cart(DB, CartItem, user,
                         shipping_data, cart_order) IN
            /\ Commit(r)
            /\ CartItem' = r.CartItem
            /\ result' = Result("create_from_cart", user,
                                CartItemsData(cart_order), request,
                                shipping_data, r.dto, r.raised,
                                IF r.raised THEN 500
                                ELSE IF r.dto.success THEN 201 ELSE 400)
    /\ UNCHANGED <<graphVars, apiVars>>

\* POST cart/add_item with one item: CartViewSet.add_item
CartViewSet_add_item(user, product_id, quantity) ==
    /\ result = Idle
    /\ \A ci \in CartItemsOf(CartItem, user) :
           ci.product = product_id => ci.quantity + quantity <= MaxCartQty
    /\ (\A ci \in CartItemsOf(CartItem, user) : ci.product # product_id)
          => Cardinality(CartItem) < MaxCartRows
    /\ CartItem' = add_item(CartItem, Product, CartOf[user],
                          <<[product_id |-> product_id, quantity |-> quantity]>>).CartItem
    /\ UNCHANGED <<DB_ENGINE, Product, Address, Order, OrderItem, result, graphVars, apiVars>>

\* POST products/{id}/toggle_pause/ by the product's seller
ProductViewSet_toggle_pause(product_id) ==
    /\ result = Idle
    /\ product_id \in ProductObjects(Product)
    /\ Product[product_id].paused
          \/ Cardinality({p \in ProductIds : Product[p].paused}) < MaxPaused
    /\ Product' = toggle_pause(Product, product_id)
    /\ UNCHANGED <<DB_ENGINE, Address, CartItem, Order, OrderItem, result, graphVars, apiVars>>

-----------------------------------------------------------------------------
(* The soft-delete graph: an instance of the schema *)

Objects == {"U1", "U2", "P1", "C2", "CI1", "O1", "OI1", "A2", "Q1", "Q2"}

ModelOf == [U1 |-> "User", U2 |-> "User", P1 |-> "Product", C2 |-> "Cart",
            CI1 |-> "CartItem", O1 |-> "Order", OI1 |-> "OrderItem",
            A2 |-> "Address", Q1 |-> "Question", Q2 |-> "Question"]

\* The ForeignKey / OneToOneField columns of the models, as _meta lists them
Fields == <<
    [model |-> "Product",   name |-> "seller",  to |-> "User",
     on_delete |-> "CASCADE",  null |-> FALSE, one_to_one |-> FALSE],
    [model |-> "Cart",      name |-> "user",    to |-> "User",
     on_delete |-> "CASCADE",  null |-> FALSE, one_to_one |-> TRUE],
    [model |-> "CartItem",  name |-> "cart",    to |-> "Cart",
     on_delete |-> "CASCADE",  null |-> FALSE, one_to_one |-> FALSE],
    [model |-> "CartItem",  name |-> "product", to |-> "Product",
     on_delete |-> "CASCADE",  null |-> FALSE, one_to_one |-> FALSE],
    [model |-> "Order",     name |-> "user",    to |-> "User",
     on_delete |-> "CASCADE",  null |-> FALSE, one_to_one |-> FALSE],
    [model |-> "Order",     name |-> "shipping_address", to |-> "Address",
     on_delete |-> "SET_NULL", null |-> TRUE,  one_to_one |-> FALSE],
    [model |-> "OrderItem", name |-> "order",   to |-> "Order",
     on_delete |-> "CASCADE",  null |-> FALSE, one_to_one |-> FALSE],
    [model |-> "OrderItem", name |-> "product", to |-> "Product",
     on_delete |-> "SET_NULL", null |-> TRUE,  one_to_one |-> FALSE],
    [model |-> "Address",   name |-> "user",    to |-> "User",
     on_delete |-> "CASCADE",  null |-> FALSE, one_to_one |-> FALSE],
    [model |-> "Profile",   name |-> "user",    to |-> "User",
     on_delete |-> "CASCADE",  null |-> FALSE, one_to_one |-> TRUE],
    [model |-> "Question",  name |-> "product", to |-> "Product",
     on_delete |-> "CASCADE",  null |-> FALSE, one_to_one |-> FALSE],
    [model |-> "Question",  name |-> "user",    to |-> "User",
     on_delete |-> "CASCADE",  null |-> FALSE, one_to_one |-> FALSE],
    [model |-> "Question",  name |-> "parent",  to |-> "Question",
     on_delete |-> "CASCADE",  null |-> TRUE,  one_to_one |-> FALSE] >>

FieldNames(model) == {Fields[i].name : i \in {j \in 1..Len(Fields) : Fields[j].model = model}}

InitFk ==
    [U1  |-> <<>>,
     U2  |-> <<>>,
     P1  |-> [seller |-> "U1"],
     C2  |-> [user |-> "U2"],
     CI1 |-> [cart |-> "C2", product |-> "P1"],
     O1  |-> [user |-> "U2", shipping_address |-> "A2"],
     OI1 |-> [order |-> "O1", product |-> "P1"],
     A2  |-> [user |-> "U2"],
     Q1  |-> [product |-> "P1", user |-> "U2", parent |-> None],
     Q2  |-> [product |-> "P1", user |-> "U1", parent |-> "Q1"]]

\* Model.all_objects: every row; Model.objects: the rows not soft-deleted
all_objects(D) == DOMAIN D
objects(D) == {o \in DOMAIN D : D[o] = None}

\* the rows of field.model whose column `field` refers to target
Referring(F, field, target) ==
    {o \in Objects : ModelOf[o] = field.model /\ F[o][field.name] = target}

-----------------------------------------------------------------------------
(* BaseModel.delete / BaseModel.restore *)

\* st = [deleted_at, fk, ctx, saves]: the rows, the _deletion_context and the
\* objects whose deleted_at was saved, in order.

\* handle_foreign_keys: own nullable SET_NULL references are set to None
handle_foreign_keys(obj, F) ==
    [F EXCEPT ![obj] =
        [n \in DOMAIN F[obj] |->
            IF \E i \in 1..Len(Fields) :
                  /\ Fields[i].model = ModelOf[obj] /\ Fields[i].name = n
                  /\ Fields[i].on_delete = "SET_NULL" /\ Fields[i].null
            THEN None ELSE F[obj][n]]]

\* self._meta.related_objects with on_delete CASCADE: the fields of other
\* models that refer to the model of obj, in _meta order
CascadeRelations(obj) ==
    SelectSeq(Fields, LAMBDA f : f.to = ModelOf[obj] /\ f.on_delete = "CASCADE")

\* getattr(self, related_name).all() for the reverse relation `field`: the
\* active rows referring to obj; for a one-to-one relation the accessor is an
\* instance (or raises), .all() is an AttributeError and nothing is visited.
RelatedObjects(obj, field, st) ==
    IF field.one_to_one THEN {}
    ELSE Referring(st.fk, field, obj) \cap objects(st.deleted_at)

\* mutant: the row is removed, as models.Model.delete() does
delete_hard(obj, is_deleted, st) ==
    IF is_deleted THEN st
    ELSE [st EXCEPT !.deleted_at = [o \in (DOMAIN st.deleted_at) \ {obj} |->
                                        st.deleted_at[o]],
                    !.saves = Append(@, obj)]

\* mutant: restore() does not cascade
handle_cascade_restore_none(obj, r, st) == st

RECURSIVE delete(_, _, _)
RECURSIVE handle_cascade_delete(_, _, _)
RECURSIVE delete_each(_, _)

delete(obj, is_deleted, st) ==
    IF is_deleted THEN st
    ELSE IF obj \in st.ctx THEN st
    ELSE handle_cascade_delete(obj, 1,
            [deleted_at |-> [st.deleted_at EXCEPT ![obj] = Now],
             fk |-> handle_foreign_keys(obj, st.fk),
             ctx |-> st.ctx \cup {obj},
             saves |-> Append(st.saves, obj)])

\* the loop over self._meta.related_objects, from relation r on
handle_cascade_delete(obj, r, st) ==
    IF r > Len(CascadeRelations(obj)) THEN st
    ELSE handle_cascade_delete(obj, r + 1,
            delete_each(RelatedObjects(obj, CascadeRelations(obj)[r], st), st))

\* for obj in related_objects: obj.delete(_deletion_context); the instances
\* were fetched active when the loop started
delete_each(pending, st) ==
    IF pending = {} THEN st
    ELSE LET o == CHOOSE x \in pending : TRUE
         IN delete_each(pending \ {o}, delete(o, FALSE, st))

RECURSIVE restore(_, _, _)
RECURSIVE handle_cascade_restore(_, _, _)
RECURSIVE restore_each(_, _)

restore(obj, is_deleted, st) ==
    IF ~is_deleted THEN st
    ELSE handle_cascade_restore(obj, 1,
            [st EXCEPT !.deleted_at[obj] = None,
                       !.saves = Append(@, obj)])

\* the loop over self._meta.related_objects, from relation r on
handle_cascade_restore(obj, r, st) ==
    IF r > Len(CascadeRelations(obj)) THEN st
    ELSE handle_cascade_restore(obj, r + 1,
            restore_each((Referring(st.fk, CascadeRelations(obj)[r], obj)
                             \cap all_objects(st.deleted_at))
                             \ objects(st.deleted_at), st))

\* for obj in related_objects: obj.restore(); the instances were fetched
\* soft-deleted
restore_each(pending, st) ==
    IF pending = {} THEN st
    ELSE LET o == CHOOSE x \in pending : TRUE
         IN restore_each(pending \ {o}, restore(o, TRUE, st))

\* no delete() or restore() is being returned from
NoCall == [op |-> "idle", obj |-> None, was_deleted |-> FALSE, saves |-> <<>>]

InitGraph ==
    /\ deleted_at = [o \in Objects |-> None]
    /\ fk = InitFk
    /\ sd = NoCall

\* x.delete() on a freshly loaded instance
Delete(obj) ==
    /\ sd = NoCall
    /\ obj \in all_objects(deleted_at)
    /\ LET st == delete(obj, deleted_at[obj] # None,
                     [deleted_at |-> deleted_at, fk |-> fk, ctx |-> {},
                      saves |-> <<>>]) IN
       /\ deleted_at' = st.deleted_at
       /\ fk' = st.fk
       /\ sd' = [op |-> "delete", obj |-> obj,
                 was_deleted |-> deleted_at[obj] # None, saves |-> st.saves]
    /\ UNCHANGED <<orderVars, apiVars>>

\* x.restore() on a freshly loaded instance
Restore(obj) ==
    /\ sd = NoCall
    /\ obj \in all_objects(deleted_at)
    /\ LET st == restore(obj, deleted_at[obj] # None,
                      [deleted_at |-> deleted_at, fk |-> fk, ctx |-> {},
                       saves |-> <<>>]) IN
       /\ deleted_at' = st.deleted_at
       /\ fk' = st.fk
       /\ sd' = [op |-> "restore", obj |-> obj,
                 was_deleted |-> deleted_at[obj] # None, saves |-> st.saves]
    /\ UNCHANGED <<orderVars, apiVars>>

\* the call returns to its caller
Return ==
    /\ sd # NoCall
    /\ sd' = NoCall
    /\ UNCHANGED <<deleted_at, fk, orderVars, apiVars>>

\* PATCH questions/{id}/ {parent}: only top-level questions are in the
\* viewset's queryset; the new parent is any active question
QuestionViewSet_update(q, parent) ==
    /\ sd = NoCall
    /\ ModelOf[q] = "Question" /\ ModelOf[parent] = "Question"
    /\ q \in objects(deleted_at) /\ fk[q].parent = None
    /\ parent \in objects(deleted_at)
    /\ fk' = [fk EXCEPT ![q].parent = parent]
    /\ sd' = [op |-> "update", obj |-> q, was_deleted |-> FALSE, saves |-> <<>>]
    /\ UNCHANGED <<deleted_at, orderVars, apiVars>>

-----------------------------------------------------------------------------
(* BaseModel.delete, statement by statement *)

\* A frame of the call stack is one call of delete(): the instance, the
\* is_deleted it was loaded with, the relation of handle_cascade_delete being
\* looped over (0: the body of delete before the cascade) and the related
\* objects of that relation still to visit.
Frame(obj, is_deleted) ==
    [obj |-> obj, is_deleted |-> is_deleted, r |-> 0, pending |-> {}]

in_deletion_context_never(obj, ctx) == FALSE

\* obj_key in _deletion_context
in_deletion_context(obj, ctx) == obj \in ctx

\* getattr(self, related_name).all() of relation r, evaluated when its loop
\* starts
Fetch(obj, r, D, F) ==
    IF r > Len(CascadeRelations(obj)) THEN {}
    ELSE RelatedObjects(obj, CascadeRelations(obj)[r], [deleted_at |-> D, fk |-> F])

Top == run.stack[Len(run.stack)]
Pop == SubSeq(run.stack, 1, Len(run.stack) - 1)

\* x.delete() on a freshly loaded instance: the call is entered
DeleteCall(obj) ==
    /\ run.stack = <<>> /\ sd = NoCall
    /\ obj \in all_objects(deleted_at)
    /\ run' = [stack |-> <<Frame(obj, deleted_at[obj] # None)>>, ctx |-> {},
               saves |-> <<>>]
    /\ UNCHANGED <<orderVars, graphVars, User, Profile, response, procs>>

\* the two early returns of delete(), or the save of deleted_at
DeleteBody ==
    /\ run.stack # <<>> /\ Top.r = 0
    /\ IF Top.is_deleted \/ in_deletion_context(Top.obj, run.ctx)
       THEN /\ run' = [run EXCEPT !.stack = Pop]
            /\ UNCHANGED <<deleted_at, fk>>
       ELSE /\ deleted_at' = [deleted_at EXCEPT ![Top.obj] = Now]
            /\ fk' = handle_foreign_keys(Top.obj, fk)
            /\ run' = [stack |-> Append(Pop, [Top EXCEPT !.r = 1,
                                   !.pending = Fetch(Top.obj, 1, deleted_at', fk')]),
                       ctx |-> run.ctx \cup {Top.obj},
                       saves |-> Append(run.saves, Top.obj)]
    /\ UNCHANGED <<orderVars, sd, User, Profile, response, procs>>

\* handle_cascade_delete: the next related object is deleted, the next
\* relation is fetched, or the call returns
DeleteCascade ==
    /\ run.stack # <<>> /\ Top.r > 0
    /\ IF Top.r > Len(CascadeRelations(Top.obj))
       THEN run' = [run EXCEPT !.stack = Pop]
       ELSE IF Top.pending = {}
       THEN run' = [run EXCEPT !.stack = Append(Pop, [Top EXCEPT !.r = @ + 1,
                              !.pending = Fetch(Top.obj, Top.r + 1, deleted_at, fk)])]
       ELSE \E o \in Top.pending :
               run' = [run EXCEPT !.stack =
                          Append(Append(Pop, [Top EXCEPT !.pending = @ \ {o}]),
                                 Frame(o, FALSE))]
    /\ UNCHANGED <<orderVars, graphVars, User, Profile, response, procs>>

DeleteStep == DeleteBody \/ DeleteCascade

-----------------------------------------------------------------------------
(* Users, profiles and the product viewset *)

AnonymousUser == "AnonymousUser"   \* request.user of a request without credentials
StaffIds == {"u4", "u5"}           \* created by create_superuser
NewUserIds == <<"u6", "u7">>       \* the primary keys of the users registered next
NewProductIds == <<"p4", "p5">>    \* the primary keys of the products created next

EmailOf == [u1 |-> "e1", u2 |-> "e2", u3 |-> "e3", u4 |-> "e4", u5 |-> "e5"]

\* User.objects: CustomUserManager.get_queryset
ActiveUsers(U) == {u \in DOMAIN U : U[u].deleted_at = None}

\* the header a 401 answer needs (the first authentication class of the
\* settings): a token scheme, as the clients of the API send Bearer tokens
authenticate_header == "Bearer"

\* rest_framework APIView.permission_denied
permission_denied(user) ==
    IF user = AnonymousUser /\ authenticate_header # None THEN 401 ELSE 403

IsAuthenticated(user) == user # AnonymousUser

\* "raise": request.user.profile raises RelatedObjectDoesNotExist
IsSellerOrAdmin_has_permission(U, Pr, user) ==
    IF ~IsAuthenticated(user) THEN "False"
    ELSE IF user \notin DOMAIN Pr THEN "raise"
    ELSE IF Pr[user].is_seller \/ U[user].is_staff THEN "True" ELSE "False"

IsSellerOrAdmin_has_object_permission_any(U, user, obj) == TRUE

IsSellerOrAdmin_has_object_permission(U, user, obj) ==
    IsAuthenticated(user) /\ (obj.seller = user \/ U[user].is_staff)

ProductViewSet_permission_actions ==
    {"create", "update", "partial_update", "destroy", "toggle_pause"}

ProductViewSet_detail_actions ==
    {"update", "partial_update", "destroy", "toggle_pause"}

NextProductId(P) ==
    LET free == {i \in 1..Len(NewProductIds) : NewProductIds[i] \notin DOMAIN P}
    IN IF free = {} THEN None
       ELSE NewProductIds[CHOOSE i \in free : \A j \in free : i <= j]

\* ProductSerializer.create: Product.objects.create(**validated_data), the
\* hidden field seller being the requesting user
ProductSerializer_create(P, user, data) ==
    LET id == NextProductId(P)
        row == [seller |-> user, stock |-> data.stock, paused |-> FALSE,
                paused_date |-> None, original_price |-> NullPrice,
                discount |-> 0, deleted_at |-> None]
    IN [q \in DOMAIN P \cup {id} |-> IF q = id THEN row ELSE P[q]]

\* ProductUpdateSerializer.update: setattr of every validated field; the
\* hidden field seller has a value on PUT and is skipped on PATCH
ProductUpdateSerializer_update(P, pk, user, data, partial) ==
    [P EXCEPT ![pk].stock = data.stock,
              ![pk].seller = IF partial THEN @ ELSE user]

\* instance.delete() of a product: BaseModel.delete and its cascade to the
\* cart items of the product
Product_delete(db, pk) ==
    [Product |-> [db.Product EXCEPT ![pk].deleted_at = Now],
     CartItem |-> {IF ci.product = pk /\ ci.deleted_at = None
                   THEN [ci EXCEPT !.deleted_at = Now] ELSE ci : ci \in db.CartItem}]

ProductResponse(db, status, returned) ==
    [status |-> status, returned |-> returned,
     Product |-> db.Product, CartItem |-> db.CartItem]

\* ProductViewSet, one request: initial() checks the permissions, the detail
\* actions get the object and check the object permission, then the action
ProductViewSet_perform(db, user, action, pk, data) ==
    IF action = "create"
    THEN ProductResponse([db EXCEPT !.Product =
                             ProductSerializer_create(db.Product, user, data)], 201, None)
    ELSE IF action \in {"update", "partial_update"}
    THEN ProductResponse([db EXCEPT !.Product =
                             ProductUpdateSerializer_update(db.Product, pk, user, data,
                                                            action = "partial_update")],
                         200, None)
    ELSE IF action = "destroy"
    THEN LET d == Product_delete(db, pk)
         IN ProductResponse([db EXCEPT !.Product = d.Product, !.CartItem = d.CartItem],
                            204, None)
    ELSE LET P == toggle_pause(db.Product, pk)
         IN ProductResponse([db EXCEPT !.Product = P], 200, P[pk].paused)

ProductViewSet_dispatch(db, user, action, pk, data) ==
    IF ~IsAuthenticated(user)
    THEN ProductResponse(db, permission_denied(user), None)
    ELSE LET allowed == IsSellerOrAdmin_has_permission(db.User, db.Profile, user) IN
    IF allowed = "raise" THEN ProductResponse(db, 500, None)
    ELSE IF allowed = "False" THEN ProductResponse(db, permission_denied(user), None)
    ELSE IF action \in ProductViewSet_detail_actions /\ pk \notin ProductObjects(db.Product)
    THEN ProductResponse(db, 404, None)
    ELSE IF /\ action \in ProductViewSet_detail_actions
            /\ ~IsSellerOrAdmin_has_object_permission(db.User, user, db.Product[pk])
    THEN ProductResponse(db, permission_denied(user), None)
    ELSE ProductViewSet_perform(db, user, action, pk, data)

NoResponse == [view |-> "idle", action |-> None, user |-> None, pk |-> None,
               data |-> 0, many |-> FALSE, status |-> 0, returned |-> None]

Procs == {"t1", "t2"}      \* the requests served at the same time

\* a process that has not received its request
NoProcess == [pc |-> "idle", user_id |-> None, items |-> <<>>,
              products_by_seller |-> <<>>, success |-> FALSE]

\* no delete() call is in progress and none has been made
NoRun == [stack |-> <<>>, ctx |-> {}, saves |-> <<>>]

RifOf == [u1 |-> "r1", u2 |-> "r2", u3 |-> "r3", u4 |-> "r4"]

\* the users and profiles of the fixture; a user's username is its key
InitApi ==
    /\ User = [u \in UserIds \cup StaffIds |->
                 [username |-> u, email |-> EmailOf[u], is_staff |-> u \in StaffIds,
                  deleted_at |-> None]]
    /\ Profile = [u \in UserIds \cup {"u4"} |->
                    [is_seller |-> u \in {SellerOf[p] : p \in ProductIds},
                     rif |-> RifOf[u], deleted_at |-> None]]
    /\ response = NoResponse
    /\ run = NoRun
    /\ procs = [t \in Procs |-> NoProcess]

ApiDB == [User |-> User, Profile |-> Profile, Product |-> Product,
          CartItem |-> CartItem]

\* one request to the product viewset
ProductViewSet_request(user, action, pk, data) ==
    /\ action = "create" => Cardinality(DOMAIN Product) < MaxProducts
    /\ action = "create" <=> pk = None
    /\ LET r == ProductViewSet_dispatch(ApiDB, user, action, pk, data) IN
          /\ Product' = r.Product
          /\ CartItem' = r.CartItem
          /\ response' = [view |-> "products", action |-> action, user |-> user,
                          pk |-> pk, data |-> data.stock, many |-> FALSE,
                          status |-> r.status,
                          returned |-> r.returned]
    /\ UNCHANGED <<DB_ENGINE, Address, Order, OrderItem, result, User, Profile,
                   run, procs, graphVars>>

\* one request to the cart viewset: add_item or update_item with one entry
\* or a list of entries
CartViewSet_request(user, action, entries, is_many) ==
    /\ ~is_many => Len(entries) = 1
    /\ LET r == IF action = "add_item"
                THEN add_item(CartItem, Product, CartOf[user], entries)
                ELSE update_item(CartItem, CartOf[user], entries, is_many)
       IN /\ \A ci \in r.CartItem : ci.quantity <= MaxCartQty
          /\ CartItem' = r.CartItem
          /\ response' = [view |-> "cart", action |-> action, user |-> user,
                          pk |-> None, data |-> entries, many |-> is_many,
                          status |-> r.status, returned |-> None]
    /\ UNCHANGED <<DB_ENGINE, Product, Address, Order, OrderItem, result, User,
                   Profile, run, procs, graphVars>>

-----------------------------------------------------------------------------
(* Registration *)

\* RegistrationSerializer(data=...).is_valid(): the UniqueValidator of
\* User.username over User.objects, then validate()
RegistrationSerializer_is_valid(U, data) ==
    /\ ~\E u \in ActiveUsers(U) : U[u].username = data.username
    /\ data.password = data.password_confirm
    /\ ~\E u \in ActiveUsers(U) : U[u].email = data.email

NextUserId(U) ==
    LET free == {i \in 1..Len(NewUserIds) : NewUserIds[i] \notin DOMAIN U}
    IN IF free = {} THEN None
       ELSE NewUserIds[CHOOSE i \in free : \A j \in free : i <= j]

\* User.objects.create_user: the row, or IntegrityError on the unique
\* column username
create_user(U, data) ==
    IF \E u \in DOMAIN U : U[u].username = data.username
    THEN [raised |-> TRUE, User |-> U]
    ELSE LET id == NextUserId(U)
             row == [username |-> data.username, email |-> data.email,
                     is_staff |-> FALSE, deleted_at |-> None]
         IN [raised |-> FALSE,
             User |-> [u \in DOMAIN U \cup {id} |-> IF u = id THEN row ELSE U[u]]]

\* Profile.objects.create(user=user, **profile_data): the row, or
\* IntegrityError on the unique column rif
Profile_create(Pr, user, data) ==
    IF \E u \in DOMAIN Pr : Pr[u].rif = data.rif
    THEN [raised |-> TRUE, Profile |-> Pr]
    ELSE LET row == [is_seller |-> data.is_seller, rif |-> data.rif,
                     deleted_at |-> None]
         IN [raised |-> FALSE,
             Profile |-> [u \in DOMAIN Pr \cup {user} |-> IF u = user THEN row ELSE Pr[u]]]

RegistrationSerializer_create_not_atomic(U, Pr, data) ==
    LET u == create_user(U, data) IN
    IF u.raised THEN [raised |-> TRUE, User |-> U, Profile |-> Pr]
    ELSE LET p == Profile_create(Pr, NextUserId(U), data)
         IN [raised |-> p.raised, User |-> u.User, Profile |-> p.Profile]

\* RegistrationSerializer.create under @transaction.atomic: an exception
\* rolls both writes back
RegistrationSerializer_create(U, Pr, data) ==
    LET u == create_user(U, data) IN
    IF u.raised THEN [raised |-> TRUE, User |-> U, Profile |-> Pr]
    ELSE LET p == Profile_create(Pr, NextUserId(U), data)
         IN IF p.raised THEN [raised |-> TRUE, User |-> U, Profile |-> Pr]
            ELSE [raised |-> FALSE, User |-> u.User, Profile |-> p.Profile]

\* RegistrationView.create
RegistrationView_create(U, Pr, data) ==
    IF ~RegistrationSerializer_is_valid(U, data)
    THEN [status |-> 400, User |-> U, Profile |-> Pr]
    ELSE LET r == RegistrationSerializer_create(U, Pr, data)
         IN [status |-> IF r.raised THEN 500 ELSE 201,
             User |-> r.User, Profile |-> r.Profile]

\* POST register/
Register(data) ==
    /\ Cardinality(DOMAIN User) < MaxUsers
    /\ LET r == RegistrationView_create(User, Profile, data) IN
          /\ User' = r.User
          /\ Profile' = r.Profile
          /\ response' = [view |-> "register", action |-> "create", user |-> AnonymousUser,
                          pk |-> None, data |-> data, many |-> FALSE,
                          status |-> r.status, returned |-> None]
    /\ UNCHANGED <<orderVars, graphVars, run, procs>>

\* user.delete() of a user that owns no product, address, cart or order:
\* BaseModel.delete sets deleted_at; the profile, behind a one-to-one
\* field, is not reached by handle_cascade_delete
User_delete(u) ==
    /\ u \in ActiveUsers(User) \ UserIds
    /\ User' = [User EXCEPT ![u].deleted_at = Now]
    /\ response' = [NoResponse EXCEPT !.view = "users", !.action = "delete",
                                      !.user = u]
    /\ UNCHANGED <<orderVars, graphVars, Profile, run, procs>>

-----------------------------------------------------------------------------
(* create_orders of several requests at the same time *)

\* Each request runs OrdersBo.create_orders in its own transaction of the
\* default engine (postgresql, READ COMMITTED): ProductValidator reads the
\* committed rows without select_for_update, and the writes of OrderCreator
\* become visible at the commit.  The UPDATE of product.save() waits for the
\* row lock of an open transaction, so the writes of a transaction and its
\* commit are one step.

\* the address each buyer ships to
ShippingOf == [u1 |-> "a2", u3 |-> "a1"]

\* create_orders up to the end of ProductValidator.validate_products
ValidateProducts(t, user_id, items) ==
    /\ procs[t].pc = "idle"
    /\ LET v == validate_products(Product, items, user_id) IN
          procs' = [procs EXCEPT ![t] =
              IF v.product_errors # <<>> \/ v.products_by_seller = <<>>
              THEN [pc |-> "done", user_id |-> user_id, items |-> items,
                    products_by_seller |-> <<>>, success |-> FALSE]
              ELSE [pc |-> "validated", user_id |-> user_id, items |-> items,
                    products_by_seller |-> v.products_by_seller,
                    success |-> FALSE]]
    /\ UNCHANGED <<orderVars, graphVars, User, Profile, response, run>>

\* the rest of create_orders: the shipping address, OrderCreator.create_orders
\* on the product instances that validate_products loaded, and the commit
CreateAndCommit(t) ==
    /\ procs[t].pc = "validated"
    /\ LET user_id == procs[t].user_id
           a == process_shipping_address(Address,
                    [NoShipping EXCEPT !.address_id = ShippingOf[user_id]], user_id)
           c == OrderCreator_create_orders(DB_ENGINE, procs[t].products_by_seller,
                    1, a.address, user_id,
                    [Product |-> Product, Order |-> Order, OrderItem |-> OrderItem,
                     created_orders |-> <<>>, raised |-> FALSE])
       IN IF a.address = None \/ c.raised
          THEN /\ procs' = [procs EXCEPT ![t].pc = "done"]
               /\ UNCHANGED <<Product, Address, Order, OrderItem>>
          ELSE /\ Product' = c.Product
               /\ Address' = a.Address
               /\ Order' = c.Order
               /\ OrderItem' = c.OrderItem
               /\ procs' = [procs EXCEPT ![t].pc = "done", ![t].success = TRUE]
    /\ UNCHANGED <<DB_ENGINE, CartItem, result, graphVars, User, Profile, response, run>>

-----------------------------------------------------------------------------
(* Specifications *)

Init == InitOrders /\ InitGraph /\ InitApi

\* One order request on the database that the product requests before it
\* have left: the properties of order creation are about one call.
Next ==
    \/ \E u \in Buyers, items \in SeqsUpTo(ItemChoices, MaxItems),
          s \in DirectShippingChoices : CreateOrders(u, items, s)
    \/ \E p \in ProductIds : ProductViewSet_toggle_pause(p)

\* every engine and discount of the fixture: what the stored prices depend on
SpecPrices == Init /\ [][Next]_vars

\* one engine and one discount: what validation, grouping and rollback do
\* not depend on
InitCalls ==
    /\ Init
    /\ DB_ENGINE = "postgresql"
    /\ \A p \in ProductIds : Product[p].discount = 5

Spec == InitCalls /\ [][Next]_vars

\* One order request from the carts that the cart requests before it have
\* filled
NextCart ==
    \/ \E u \in Buyers, p \in ProductIds \cup {GhostProduct},
          q \in 0..MaxCartQty : CartViewSet_add_item(u, p, q)
    \/ \E u \in Buyers \cup {GhostUser}, s \in ShippingChoices :
          \E o \in Perms(IF u \in UserObjects THEN CartItemsOf(CartItem, u) ELSE {}) :
              CreateOrdersFromCart(u, s, o)
    \/ \E u \in Buyers,
          a \in {None, "a1", "a2", GhostAddress},
          n \in {None, GoodAddressData} :
          \E o \in Perms(CartItemsOf(CartItem, u)) :
              OrderViewSet_create_from_cart(u, [address |-> a, new_address |-> n], o)

InitCart ==
    /\ Init
    /\ DB_ENGINE = "postgresql"
    /\ \A p \in ProductIds :
          Product[p].discount = 5 /\ Product[p].original_price # NullPrice

SpecCart == InitCart /\ [][NextCart]_vars

\* delete() and restore() over the object graph
InitSoftDelete ==
    /\ InitGraph
    /\ InitOrders
    /\ InitApi
    /\ DB_ENGINE = "postgresql"
    /\ \A p \in ProductIds : Product[p].discount = 0 /\ Product[p].original_price # NullPrice

NextSoftDelete ==
    \/ \E o \in Objects : Delete(o)
    \/ \E o \in Objects : Restore(o)
    \/ \E q \in Objects, parent \in Objects : QuestionViewSet_update(q, parent)
    \/ Return

SpecSoftDelete == InitSoftDelete /\ [][NextSoftDelete]_vars

\* The objects a one-to-one field refers to: their reverse accessor is the
\* related instance, not a manager
OneToOneTargets == {fk[c].user : c \in {o \in Objects : ModelOf[o] = "Cart"}}

\* delete() and restore() on the objects no one-to-one field refers to
NextRestore ==
    \/ \E o \in Objects \ OneToOneTargets : Delete(o)
    \/ \E o \in Objects \ OneToOneTargets : Restore(o)
    \/ \E q \in Objects, parent \in Objects : QuestionViewSet_update(q, parent)
    \/ Return

SpecRestore == InitSoftDelete /\ [][NextRestore]_vars

-----------------------------------------------------------------------------
(* Properties of order creation *)

RequestedProducts(items) == {items[i].product_id : i \in 1..Len(items)}

FirstQuantity(items, p) ==
    LET i == CHOOSE k \in 1..Len(items) :
                 /\ items[k].product_id = p
                 /\ \A j \in 1..(k - 1) : items[j].product_id # p
    IN items[i].quantity

Occurrences(items, p) == {i \in 1..Len(items) : items[i].product_id = p}

ItemsOf(OI, order_id) == {oi \in OI : oi.order = order_id}

\* the orders the last answer returned
CreatedOrders == {o \in Order : \E k \in 1..Len(result.orders) : result.orders[k] = o.id}

CreateAnswered == result.op \in {"create_orders", "create_orders_from_cart", "create_from_cart"}

\* C1: a successful create_orders creates one order per distinct seller of
\* the requested products: the items of an order are products of one seller,
\* no two created orders share a seller, no created order is empty and every
\* requested product is an item of exactly one created order.
C1_OneOrderPerSeller ==
    (result.op = "create_orders" /\ result.success) =>
        LET req == RequestedProducts(result.items)
            sellers(o) == {Product[oi.product].seller : oi \in ItemsOf(OrderItem, o.id)}
        IN /\ Len(result.orders) = Cardinality({Product[p].seller : p \in req})
           /\ Cardinality(CreatedOrders) = Len(result.orders)
           /\ \A o \in CreatedOrders : Cardinality(sellers(o)) = 1
           /\ \A o1, o2 \in CreatedOrders : o1 # o2 => sellers(o1) # sellers(o2)
           /\ \A p \in req :
                 Cardinality({oi \in OrderItem : oi.product = p /\
                                 \E o \in CreatedOrders : oi.order = o.id}) = 1

C1_Witness ==
    /\ result.op = "create_orders" /\ result.success
    /\ Len(result.orders) = 2
    /\ Cardinality(OrderItem) = 2

\* C2: the total of every order is the sum of the prices of its items, the
\* price of every item is original_price * quantity * (100 - discount) / 100
\* (to the cent, which is what the column keeps; a half cent may go either
\* way) and its discount is the product's discount.
C2_TotalsAndPrices ==
    \A o \in Order :
        /\ o.total = SumPrice(ItemsOf(OrderItem, o.id))
        /\ \A oi \in ItemsOf(OrderItem, o.id) :
              LET exact == Product[oi.product].original_price
                              * oi.quantity * (100 - Product[oi.product].discount)
              IN /\ oi.price * 100 - exact <= 50
                 /\ exact - oi.price * 100 <= 50
                 /\ oi.discount = Product[oi.product].discount

\* the error types whose condition holds of product p for the buyer
ApplicableErrors(P, p, user) ==
    IF p \notin ProductObjects(P) THEN {"product_not_found"}
    ELSE (IF P[p].seller = user THEN {"own_product"} ELSE {})
         \cup (IF P[p].paused THEN {"paused_product"} ELSE {})

\* C3: no order item is ever created for a product that does not exist, is
\* paused or is sold by the buyer at that moment, and a request for such a
\* product is rejected with the error type of its condition.
C3_NoForbiddenItems ==
    [][ /\ \A oi \in OrderItem' \ OrderItem :
              LET o == CHOOSE x \in Order' : x.id = oi.order IN
              /\ oi.product \in ProductObjects(Product)
              /\ ~Product[oi.product].paused
              /\ Product[oi.product].seller # o.user
        /\ (result'.op \in {"create_orders", "create_orders_from_cart"}
              /\ result'.user_id \in UserObjects)
           => \A p \in RequestedProducts(result'.items) :
                 ApplicableErrors(Product, p, result'.user_id) # {}
                 => /\ ~result'.success
                    /\ \E k \in 1..Len(result'.product_errors) :
                          /\ result'.product_errors[k].product_id = p
                          /\ result'.product_errors[k].error_type
                                \in ApplicableErrors(Product, p, result'.user_id)
      ]_vars

C3_Witness ==
    /\ result.op = "create_orders" /\ ~result.success
    /\ \E i, j \in 1..Len(result.product_errors) :
          /\ result.product_errors[i].error_type = "own_product"
          /\ result.product_errors[j].error_type = "paused_product"

\* item fails validation: not found, own product, paused or quantity > stock
ItemFails(P, item, user) ==
    \/ item.product_id \notin ProductObjects(P)
    \/ P[item.product_id].seller = user
    \/ P[item.product_id].paused
    \/ item.quantity > P[item.product_id].stock

\* the answer reports exactly one error for each product of `failing` and
\* no table has changed
RejectedUnchanged(failing) ==
    /\ ~result'.success
    /\ {result'.product_errors[k].product_id : k \in 1..Len(result'.product_errors)} = failing
    /\ Len(result'.product_errors) = Cardinality(failing)
    /\ UNCHANGED <<Product, Address, Order, OrderItem>>

\* C4 as stated: if any item of the request fails validation the request is
\* rejected with one error per failing distinct product and nothing changes.
C4_AnyFailingItem ==
    [][ (result'.op = "create_orders" /\ result'.user_id \in UserObjects)
        => LET failing == {result'.items[i].product_id :
                             i \in {k \in 1..Len(result'.items) :
                                      ItemFails(Product, result'.items[k], result'.user_id)}}
           IN failing # {} => RejectedUnchanged(failing)
      ]_vars

\* C4 (amended): if the first occurrence of some product_id in the request
\* fails validation, the request is rejected with one error per product
\* whose first occurrence fails and nothing changes.
C4_FirstFailingItem ==
    [][ (result'.op = "create_orders" /\ result'.user_id \in UserObjects)
        => LET failing == {p \in RequestedProducts(result'.items) :
                             ItemFails(Product,
                                 [product_id |-> p,
                                  quantity |-> FirstQuantity(result'.items, p)],
                                 result'.user_id)}
           IN failing # {} => RejectedUnchanged(failing)
      ]_vars

C4_Witness ==
    /\ result.op = "create_orders" /\ ~result.success
    /\ Len(result.items) = 2
    /\ result.items[1].product_id # result.items[2].product_id
    /\ Len(result.product_errors) = 1
    /\ result.product_errors[1].error_type = "insufficient_stock"
    /\ result.shipping_data.new_address = GoodAddressData

\* C8: when a product_id occurs more than once in a successful request, the
\* created orders hold exactly one item for it, with the quantity of the
\* first occurrence, and its stock goes down by that quantity once.
C8_FirstOccurrenceOnly ==
    [][ (result'.op = "create_orders" /\ result'.success)
        => \A p \in RequestedProducts(result'.items) :
              Cardinality(Occurrences(result'.items, p)) > 1
              => LET new == {oi \in OrderItem' \ OrderItem : oi.product = p} IN
                 /\ Cardinality(new) = 1
                 /\ \A oi \in new : oi.quantity = FirstQuantity(result'.items, p)
                 /\ Product'[p].stock = Product[p].stock - FirstQuantity(result'.items, p)
      ]_vars

C8_Witness ==
    /\ result.op = "create_orders" /\ result.success
    /\ Len(result.items) = 2
    /\ result.items[1].product_id = result.items[2].product_id
    /\ result.items[1].quantity # result.items[2].quantity

-----------------------------------------------------------------------------
(* Properties of soft delete *)

\* the objects holding a CASCADE reference (ForeignKey or OneToOneField) to x
DirectDependents(F, x) ==
    {o \in Objects :
        \E i \in 1..Len(Fields) :
            /\ Fields[i].model = ModelOf[o]
            /\ Fields[i].to = ModelOf[x]
            /\ Fields[i].on_delete = "CASCADE"
            /\ F[o][Fields[i].name] = x}

\* the objects reached from `frontier` along CASCADE references, stepping
\* only onto objects of `through`
RECURSIVE Reach(_, _, _, _)
Reach(F, frontier, seen, through) ==
    LET next == ((UNION {DirectDependents(F, x) : x \in frontier}) \cap through) \ seen
    IN IF next = {} THEN seen
       ELSE Reach(F, next, seen \cup next, through)

\* every object that depends on x through a chain of CASCADE references
Dependents(F, x) == Reach(F, {x}, {}, Objects)

\* ... through a chain whose objects are all soft-deleted
DeletedChainDependents(F, D, x) ==
    Reach(F, {x}, {}, {o \in Objects : o \in DOMAIN D /\ D[o] # None})

\* C5: delete() on an active instance keeps the row: it stays in all_objects
\* with deleted_at set and leaves objects; no delete() or restore() ever
\* removes a row, and objects is exactly the rows whose deleted_at is null.
C5_SoftDeleteKeepsRows ==
    [][ /\ all_objects(deleted_at) \subseteq all_objects(deleted_at')
        /\ Cardinality(all_objects(deleted_at')) >= Cardinality(all_objects(deleted_at))
        /\ (sd'.op = "delete" /\ ~sd'.was_deleted)
           => /\ sd'.obj \in all_objects(deleted_at')
              /\ deleted_at'[sd'.obj] # None
              /\ sd'.obj \notin objects(deleted_at')
        /\ objects(deleted_at') =
              {o \in all_objects(deleted_at') : deleted_at'[o] = None}
      ]_vars

C5_Witness ==
    /\ sd.op = "delete" /\ ~sd.was_deleted
    /\ sd.obj = "P1"
    /\ deleted_at["P1"] # None

\* C6: when delete() on an active object x returns, every object that
\* depended on x through a chain of CASCADE references and was active before
\* the call is soft-deleted.
C6_CascadeDelete ==
    [][ (sd'.op = "delete" /\ ~sd'.was_deleted)
        => \A y \in Dependents(fk, sd'.obj) :
              deleted_at[y] = None => deleted_at'[y] # None
      ]_vars

\* C7 as stated: restore() on a soft-deleted x leaves x and every object
\* that depends on x through a chain of CASCADE references active.
C7_RestoreAllDependents ==
    [][ (sd'.op = "restore" /\ sd'.was_deleted)
        => /\ deleted_at'[sd'.obj] = None
           /\ \A y \in Dependents(fk, sd'.obj) : deleted_at'[y] = None
      ]_vars

\* C7 (amended): restore() on a soft-deleted x sets deleted_at to null on x
\* and on every soft-deleted object that depends on x through a chain of
\* CASCADE references whose objects are all soft-deleted, and on nothing else.
C7_RestoreDeletedChains ==
    [][ (sd'.op = "restore" /\ sd'.was_deleted)
        => LET restored == {sd'.obj}
                 \cup DeletedChainDependents(fk, deleted_at, sd'.obj)
           IN deleted_at' = [o \in Objects |->
                                IF o \in restored THEN None ELSE deleted_at[o]]
      ]_vars

C7_Witness ==
    /\ sd.op = "restore" /\ sd.was_deleted
    /\ sd.obj = "P1"
    /\ Len(sd.saves) >= 3
    /\ \A o \in {"P1", "CI1", "Q1", "Q2"} : deleted_at[o] = None

-----------------------------------------------------------------------------
(* Properties of order creation from the cart *)

\* C9: a successful create_orders_from_cart leaves the user's cart empty and
\* the created orders hold exactly the products and quantities of the cart;
\* a failed one changes neither the cart nor the orders.
C9_CartToOrders ==
    [][ (result'.op = "create_orders_from_cart")
        => LET u == result'.user_id
               cart == IF u \in UserObjects THEN CartItemsOf(CartItem, u) ELSE {}
               new == {oi \in OrderItem' :
                          \E k \in 1..Len(result'.orders) : result'.orders[k] = oi.order}
           IN IF result'.success
              THEN /\ cart # {}
                   /\ CartItemsOf(CartItem', u) = {}
                   /\ new = OrderItem' \ OrderItem
                   /\ {<<oi.product, oi.quantity>> : oi \in new}
                         = {<<ci.product, ci.quantity>> : ci \in cart}
                   /\ Cardinality(new) = Cardinality(cart)
                   /\ {o.id : o \in Order' \ Order}
                         = {result'.orders[k] : k \in 1..Len(result'.orders)}
              ELSE UNCHANGED <<CartItem, Order, OrderItem>>
      ]_vars

C9_Witness ==
    /\ result.op = "create_orders_from_cart" /\ result.success
    /\ Len(result.items) >= 2
    /\ Len(result.orders) = 2
    /\ CartItemsOf(CartItem, result.user_id) = {}
    /\ \E ci \in CartItem : ci.cart # CartOf[result.user_id]

\* C10: POST orders/from-cart with a non-empty cart of valid products and an
\* existing address of the requesting user in `address` creates the orders,
\* one per seller, each shipped to that address, and answers 201.
C10_FromCartWithAddress ==
    [][ ( /\ result'.op = "create_from_cart"
          /\ result'.request.address # None
          /\ result'.request.new_address = None
          /\ \E a \in SoftDeleteManager(Address) :
                a.id = result'.request.address /\ a.user = result'.user_id
          /\ result'.items # <<>>
          /\ \A i \in 1..Len(result'.items) :
                ~ItemFails(Product, result'.items[i], result'.user_id) )
        => /\ result'.status = 201
           /\ Len(result'.orders)
                 = Cardinality({Product[p].seller : p \in RequestedProducts(result'.items)})
           /\ \A o \in Order' \ Order :
                 /\ o.shipping_address = result'.request.address
                 /\ o.user = result'.user_id
           /\ {o.id : o \in Order' \ Order}
                 = {result'.orders[k] : k \in 1..Len(result'.orders)}
      ]_vars

-----------------------------------------------------------------------------
(* The product viewset: who may change a product, and Product.toggle_pause *)

ProductCallers == UserIds \cup StaffIds \cup {AnonymousUser}
ProductTargets == {"p1", NewProductIds[1], GhostProduct}
ProductData == [stock : {0}]

NextProducts ==
    \E u \in ProductCallers, a \in ProductViewSet_permission_actions,
       pk \in ProductTargets \cup {None}, d \in ProductData :
          ProductViewSet_request(u, a, pk, d)

SpecProducts == InitCart /\ [][NextProducts]_vars

\* C11: a toggle_pause call flips paused and returns the new value; whatever
\* calls were made, paused_date is set exactly on the paused products; a
\* toggle right after a toggle that paused the product leaves it unpaused
\* with paused_date None.
C11_TogglePause ==
    [][ /\ \A q \in DOMAIN Product' :
              (Product'[q].paused_date # None) <=> Product'[q].paused
        /\ (response'.action = "toggle_pause" /\ response'.status = 200)
           => LET p == response'.pk IN
              /\ Product'[p].paused = ~Product[p].paused
              /\ response'.returned = Product'[p].paused
              /\ ( /\ response.action = "toggle_pause" /\ response.status = 200
                   /\ response.pk = p /\ response.returned )
                 => ~Product'[p].paused /\ Product'[p].paused_date = None
      ]_vars

\* the second of two consecutive toggles of one product has answered
C11_Witness ==
    /\ response.action = "toggle_pause" /\ response.status = 200
    /\ ~response.returned
    /\ ~Product[response.pk].paused /\ Product[response.pk].paused_date = None

\* the callers the rules of the product viewset let through: sellers and
\* staff for create, the product's seller and staff for the detail actions
MayChangeProduct(user, action, pk) ==
    /\ user # AnonymousUser
    /\ \/ User[user].is_staff
       \/ IF action = "create"
          THEN user \in DOMAIN Profile /\ Profile[user].is_seller
          ELSE Product[pk].seller = user

\* a request for create, or for a detail action on an active product
ProductRequestStep ==
    /\ response'.view = "products"
    /\ response'.action = "create" \/ response'.pk \in ProductObjects(Product)

\* C12 as stated: only sellers and staff create products, only its seller
\* and staff update, delete or pause-toggle a product; every rejected
\* request answers 403 and leaves the products unchanged.
C12_RejectedAnswers403 ==
    [][ ProductRequestStep
        => IF MayChangeProduct(response'.user, response'.action, response'.pk)
           THEN TRUE
           ELSE response'.status = 403 /\ Product' = Product
      ]_vars

\* C12, amended: as C12_RejectedAnswers403, but the rejected request of a
\* caller without credentials answers 401.
C12_RejectedUnchanged ==
    [][ ProductRequestStep
        => IF MayChangeProduct(response'.user, response'.action, response'.pk)
           THEN TRUE
           ELSE /\ response'.status
                      = IF response'.user = AnonymousUser THEN 401 ELSE 403
                /\ Product' = Product
      ]_vars

\* a seller's update of another seller's product has been rejected
C12_Witness ==
    /\ response.view = "products" /\ response.action = "update"
    /\ response.status = 403
    /\ response.pk \in ProductObjects(Product)
    /\ response.user \in DOMAIN Profile /\ Profile[response.user].is_seller
    /\ Product[response.pk].seller # response.user

-----------------------------------------------------------------------------
(* The cart viewset: add_item and update_item of one user *)

CartCaller == "u1"
CartProducts == {"p1", "p2"}
ItemIds == {<<CartOf[CartCaller], p>> : p \in CartProducts} \cup {<<CartOf["u3"], "p1">>}

CartQuantities == {-1, 0, 1, 2}     \* of a single entry
ListQuantities == {0, 1}            \* of the entries of a list

AddEntries(Q) == [product_id : CartProducts \cup {GhostProduct}, quantity : Q]
UpdateEntries(Q) == [item_id : ItemIds, quantity : Q]

\* a single entry, or a list of one or two entries
Payloads(E, L) ==
    {<<FALSE, <<e>> >> : e \in E} \cup {<<TRUE, l>> : l \in SeqsUpTo(L, 2) \ {<<>>}}

NextCartApi ==
    \/ \E d \in Payloads(AddEntries(CartQuantities), AddEntries(ListQuantities)) :
          CartViewSet_request(CartCaller, "add_item", d[2], d[1])
    \/ \E d \in Payloads(UpdateEntries(CartQuantities), UpdateEntries(ListQuantities)) :
          CartViewSet_request(CartCaller, "update_item", d[2], d[1])
    \/ CartViewSet_request("u3", "add_item",
                           <<[product_id |-> "p1", quantity |-> 1]>>, FALSE)

SpecCartApi == InitCart /\ [][NextCartApi]_vars

ActiveItem(CI, cart, product) ==
    {ci \in SoftDeleteManager(CI) : ci.cart = cart /\ ci.product = product}

\* C13: add_item of product p with quantity q > 0 adds q to the quantity of
\* the active item the cart has for p and creates no item, or else creates
\* one item with quantity q; a cart never holds two active items of one
\* product; a request with q <= 0 is rejected and changes nothing.
C13_AddItem ==
    [][ (response'.view = "cart" /\ response'.action = "add_item" /\ ~response'.many)
        => LET e == response'.data[1]
               cart == CartOf[response'.user]
               old == ActiveItem(CartItem, cart, e.product_id)
               new == ActiveItem(CartItem', cart, e.product_id)
           IN /\ \A ci \in SoftDeleteManager(CartItem') :
                    ActiveItem(CartItem', ci.cart, ci.product) = {ci}
              /\ IF e.quantity <= 0
                 THEN response'.status = 400 /\ CartItem' = CartItem
                 ELSE e.product_id \in ProductObjects(Product)
                      => IF old # {}
                         THEN /\ \E ci \in old :
                                    new = {[ci EXCEPT !.quantity = @ + e.quantity]}
                              /\ Cardinality(CartItem') = Cardinality(CartItem)
                         ELSE /\ Cardinality(new) = 1
                              /\ \A ci \in new : ci.quantity = e.quantity
                              /\ SoftDeleteManager(CartItem') = SoftDeleteManager(CartItem) \cup new
      ]_vars


\* the quantity the last entry naming the item asks for
LastQuantity(entries, item_id) ==
    LET named == {i \in 1..Len(entries) : entries[i].item_id = item_id}
    IN entries[CHOOSE i \in named : \A j \in named : j <= i].quantity

\* C14: update_item on items of the caller's cart removes the item from the
\* active items when the quantity is 0 and sets its quantity to n when it is
\* n > 0; with a negative quantity or an item that is not in the caller's
\* cart it answers a validation error and changes nothing; the quantities
\* of the other items stay.
C14_UpdateItem ==
    [][ (response'.view = "cart" /\ response'.action = "update_item")
        => LET entries == response'.data
               cart == CartOf[response'.user]
               named == {entries[i].item_id : i \in 1..Len(entries)}
           IN IF \E i \in 1..Len(entries) :
                    ~CartItemUpdateSerializer_is_valid(CartItem, cart, entries[i])
              THEN response'.status = 400 /\ CartItem' = CartItem
              ELSE /\ response'.status = 200
                   /\ \A ci \in CartItem :
                         IF ci.id \notin named THEN ci \in CartItem'
                         ELSE LET q == LastQuantity(entries, ci.id) IN
                              IF q = 0
                              THEN [ci EXCEPT !.deleted_at = Now] \in CartItem'
                              ELSE [ci EXCEPT !.quantity = q] \in CartItem'
      ]_vars

-----------------------------------------------------------------------------
(* Registration *)

RegistrationData ==
    [username : {"u5", "n1"}, email : {"e1", "e5", "e9"},
     password : {"pw"}, password_confirm : {"pw", "other"},
     rif : {"r1", "r9"}, is_seller : BOOLEAN]

NextRegistration ==
    \/ \E d \in RegistrationData : Register(d)
    \/ \E u \in DOMAIN User : User_delete(u)

SpecRegistration == InitCart /\ [][NextRegistration]_vars

\* the registration created one user and the profile of that user
CreatedUserAndProfile(data) ==
    \E id \in DOMAIN User' \ DOMAIN User :
        /\ DOMAIN User' = DOMAIN User \cup {id}
        /\ DOMAIN Profile' = DOMAIN Profile \cup {id}
        /\ id \notin DOMAIN Profile
        /\ \A u \in DOMAIN User : User'[u] = User[u]
        /\ \A u \in DOMAIN Profile : Profile'[u] = Profile[u]
        /\ User'[id].email = data.email /\ User'[id].username = data.username
        /\ Profile'[id].is_seller = data.is_seller

\* C15: a registration whose passwords differ, or whose email an active
\* user has, answers 400 and creates neither a user nor a profile; every
\* registration creates one user and one profile for it, or neither, and
\* one that answers 201 has created both.
C15_Registration ==
    [][ response'.view = "register"
        => LET d == response'.data IN
           /\ ( \/ d.password # d.password_confirm
                \/ \E u \in ActiveUsers(User) : User[u].email = d.email )
              => /\ response'.status = 400
                 /\ User' = User /\ Profile' = Profile
           /\ \/ User' = User /\ Profile' = Profile
              \/ CreatedUserAndProfile(d)
           /\ response'.status = 201 <=> (User' # User)
           /\ RegistrationSerializer_is_valid(User, d)
              /\ (\A u \in DOMAIN User : User[u].username # d.username)
              /\ (\A u \in DOMAIN Profile : Profile[u].rif # d.rif)
              => response'.status = 201
      ]_vars

\* a registration has created a user and its profile, with the email of a
\* soft-deleted user
C15_Witness ==
    /\ response.view = "register" /\ response.status = 201
    /\ \E u \in DOMAIN User \cap DOMAIN Profile :
          /\ User[u].username = response.data.username
          /\ \E v \in DOMAIN User \ ActiveUsers(User) : User[v].email = User[u].email

-----------------------------------------------------------------------------
(* BaseModel.delete: every call returns *)

NextDeleteSteps ==
    \/ \E o \in Objects : DeleteCall(o)
    \/ DeleteBody
    \/ DeleteCascade
    \/ \E q \in Objects, parent \in Objects :
          run.stack = <<>> /\ QuestionViewSet_update(q, parent)
    \/ run.stack = <<>> /\ Return

\* the interpreter goes on executing a call that has been entered
SpecDeleteSteps ==
    InitSoftDelete /\ [][NextDeleteSteps]_vars /\ WF_vars(DeleteStep)

\* the parent links of the questions form a loop through q
InParentCycle(q) ==
    \E n \in 1..Cardinality(Objects) :
        \E path \in [1..n -> {o \in Objects : ModelOf[o] = "Question"}] :
            /\ path[1] = q /\ fk[path[n]].parent = q
            /\ \A i \in 1..(n - 1) : fk[path[i]].parent = path[i + 1]

\* C16: a delete() call that has been entered returns, whatever the
\* references are (loops of Question.parent included), and saves deleted_at
\* on no object twice.
C16_DeleteTerminates ==
    /\ [](\A i, j \in 1..Len(run.saves) : run.saves[i] = run.saves[j] => i = j)
    /\ (run.stack # <<>>) ~> (run.stack = <<>>)

\* a delete() that went around a loop of parent links has returned
C16_Witness ==
    /\ run.stack = <<>>
    /\ \E i \in 1..Len(run.saves) :
          /\ ModelOf[run.saves[i]] = "Question"
          /\ InParentCycle(run.saves[i])
    /\ Len(run.saves) >= 2

-----------------------------------------------------------------------------
(* Concurrent create_orders *)

BuyerOf == [t1 |-> "u1", t2 |-> "u3"]

NextConcurrent ==
    \/ \E t \in Procs, p \in ProductIds \cup {GhostProduct}, q \in 1..MaxQuantity :
          ValidateProducts(t, BuyerOf[t], <<[product_id |-> p, quantity |-> q]>>)
    \/ \E t \in Procs : CreateAndCommit(t)

SpecConcurrent == InitCart /\ [][NextConcurrent]_vars

RECURSIVE SumQuantity(_)
SumQuantity(rows) ==
    IF rows = {} THEN 0
    ELSE LET r == CHOOSE x \in rows : TRUE
         IN r.quantity + SumQuantity(rows \ {r})

\* C17: whatever the interleaving of the create_orders requests, the stock
\* of a product and the quantities of its order items add up to the stock
\* it started with, and the stock is not negative.
C17_StockConserved ==
    \A p \in ProductIds :
        /\ Product[p].stock >= 0
        /\ InitStock = Product[p].stock
                       + SumQuantity({oi \in OrderItem : oi.product = p})

====
